---- MODULE Spec2Model ----
(***************************************************************************)
(* Model of veranda (src/src/lib.rs): two rand::RngCore sources for the    *)
(* VEX V5 brain, SystemRng and AdiRng.  Every draw builds a fresh hasher,  *)
(* feeds it the sampled signals and returns the finished 64-bit value.     *)
(*                                                                         *)
(* A 64-bit word is a sequence of four 16-bit limbs, least significant     *)
(* first; a 32-bit word is two limbs.  The hasher itself (ahash::AHasher)  *)
(* is a dependency and not part of the repository: it is represented by a  *)
(* deterministic, order-sensitive fold over the words written to it, and   *)
(* every hasher additionally keeps the list of writes it received (fed).   *)
(* Statements about which digests collide are therefore outside the model; *)
(* statements about what is fed, in which order, and what is done with the *)
(* digest are inside it.  The clock counts microseconds, the resolution of *)
(* the V5 timers, so as_micros() loses nothing.                            *)
(***************************************************************************)
EXTENDS Integers, Sequences, FiniteSets, TLC

VARIABLES
    kind,               \* "SystemRng" or "AdiRng": which generator was built
    ports,              \* AdiRng.ports (<<>> for SystemRng)
    time_of_creation,   \* Instant::now() taken by new()
    born,               \* the fields as new() returned them
    now,                \* the monotonic microsecond clock
    powerup,            \* vexSystemPowerupTimeGet()
    pc,                 \* "idle", or "fill" inside the chunk loop of fill_bytes
    op,                 \* the method running or last returned
    ret,                \* its return value
    dest,               \* the buffer handed to op (<<>> when op takes none)
    k,                  \* chunks of dest already visited
    calls,              \* hash_value calls made by op so far
    drawn,              \* the digests those calls returned, in order
    log,                \* the signal reads made by op so far, in order
    cur,                \* the latest hash_value call: inputs, reads, writes, digest
    prev,               \* the hash_value call before it (both forgotten when a fill begins)
    other,              \* the same draw made by a generator over the ports reversed
    envs                \* what the hardware answered to each of those calls

vars == <<kind, ports, time_of_creation, born, now, powerup, pc, op, ret, dest,
          k, calls, drawn, envs, log, cur, prev, other>>

(* ---------------------------- bounds ----------------------------------- *)
MaxTime == 1        \* the microsecond clock advances at most this far
MaxPowerup == 1     \* the power-on counter advances at most this far
MaxLen == 5         \* longest destination buffer handed to fill_bytes

(* ------------------------- sampled quantities -------------------------- *)
Limb == 65536       \* 2^16, the radix of the limb representation
Byte == 256

\* battery::voltage() in microvolts, battery::current() in microamperes
\* (the f64 readings, kept exact to six decimals); the battery is steady
Voltages == {12345678}
Currents == {2499999}
\* raw values vexDeviceAdiValueGet can return (i32)
Readings == {-1, 7}
\* values of the power-on counter when the model starts observing it
PowerupsAtStart == {40}
\* values of the monotonic clock when new() is called
ClockAtStart == {3}

\* AdiPort: number() and expander_number() (an Option, {} for None)
PortF == [number |-> 6, expander |-> {}]
PortG == [number |-> 7, expander |-> {}]
PortX == [number |-> 6, expander |-> {3}]
PortLists == {<<>>, <<PortX>>, <<PortF, PortG>>}

Min(a, b) == IF a < b THEN a ELSE b

(* --------------------------- core::Option ------------------------------ *)
unwrap_or(opt, default) == IF opt = {} THEN default ELSE CHOOSE x \in opt : TRUE

(* ---------------------- integer conversions ---------------------------- *)
\* limb i (1-based) of the two's complement representation of v
LimbOf(v, i) ==
    IF i = 1 THEN v % Limb
    ELSE IF i = 2 THEN (v \div Limb) % Limb
    ELSE IF v < 0 THEN Limb - 1 ELSE 0

Limbs(v, n) == [i \in 1..n |-> LimbOf(v, i)]

\* a cast that rounds to the nearest integer instead of truncating
MilliAsU32_rounded(micro) == IF micro < 0 THEN 0 ELSE (micro + 500) \div 1000

\* (x * 1000.0) as u32 for a reading x given in millionths of the unit:
\* the float-to-int cast truncates toward zero and saturates at 0
MilliAsU32(micro) == IF micro < 0 THEN 0 ELSE micro \div 1000

\* a truncation that keeps the high 32 bits instead
AsU32_high(value) == SubSeq(value, 3, 4)

\* u64 as u32: keep the low 32 bits
AsU32(value) == SubSeq(value, 1, 2)

\* u64::to_le_bytes
to_le_bytes(value) ==
    [i \in 1..8 |-> IF i % 2 = 1 THEN value[(i + 1) \div 2] % Byte
                                 ELSE value[i \div 2] \div Byte]

(* ------------------------------ hasher --------------------------------- *)
HasherKeys == <<9286, 35283, 12291, 28339>>

Absorb(state, w) ==
    << (state[4] * 31 + w + 1) % Limb,
       (state[1] * 29 + w + 2) % Limb,
       (state[2] * 23 + w + 3) % Limb,
       (state[3] * 19 + w + 4) % Limb >>

RECURSIVE AbsorbAll(_, _)
AbsorbAll(state, ws) ==
    IF ws = <<>> THEN state ELSE AbsorbAll(Absorb(state, Head(ws)), Tail(ws))

\* an accumulator kept from the previous draw instead of a fresh one
build_hasher_reused == [state |-> cur.digest, fed |-> <<>>]

build_hasher == [state |-> HasherKeys, fed |-> <<>>]

HasherWrite(h, type, v, n) ==
    [state |-> AbsorbAll(h.state, Limbs(v, n)), fed |-> Append(h.fed, <<type, v>>)]

write_i32(h, v) == HasherWrite(h, "i32", v, 2)
write_u32(h, v) == HasherWrite(h, "u32", v, 2)
write_u64(h, v) == HasherWrite(h, "u64", v, 4)
write_u128(h, v) == HasherWrite(h, "u128", v, 8)

finish(h) == Absorb(Absorb(h.state, h.state[1]), h.state[3])

(* --------------------------- signal reads ------------------------------ *)
\* env is what the hardware answers during one hash_value call:
\* [bus, voltage, current, now, powerup]
vexDeviceAdiValueGet(env, index, number) ==
    IF <<index, number>> \in DOMAIN env.bus THEN env.bus[<<index, number>>] ELSE 0

\* the fallback index taken one too high
AdiAddress_fallback22(port) == <<unwrap_or(port.expander, 22), port.number>>

\* the (device index, port number) pair one port is read at
AdiAddress(port) == <<unwrap_or(port.expander, 21), port.number>>

elapsed(self, env) == env.now - self.time_of_creation

\* A hash_value call in progress is m = [hasher, reads]: the accumulator and
\* the reads made so far.  Each step below is one read and the write of it.

\* hasher.write_i32(vexDeviceAdiValueGet(vexDeviceGetByIndex(..), port.number()))
MixPort(m, port, env) ==
    LET a == AdiAddress(port)
        value == vexDeviceAdiValueGet(env, a[1], a[2])
    IN  [hasher |-> write_i32(m.hasher, value),
         reads |-> Append(m.reads, <<"adi", a[1], a[2], value>>)]

\* hasher.write_u32((battery::voltage() * 1000.0) as _)
MixVoltage(m, env) ==
    [hasher |-> write_u32(m.hasher, MilliAsU32(env.voltage)),
     reads |-> Append(m.reads, <<"voltage", env.voltage>>)]

\* hasher.write_u32((battery::current() * 1000.0) as _)
MixCurrent(m, env) ==
    [hasher |-> write_u32(m.hasher, MilliAsU32(env.current)),
     reads |-> Append(m.reads, <<"current", env.current>>)]

\* the instant of creation written instead of the time elapsed since
MixElapsed_creation(m, self, env) ==
    [hasher |-> write_u128(m.hasher, self.time_of_creation),
     reads |-> Append(m.reads, <<"elapsed", elapsed(self, env)>>)]

\* hasher.write_u128(self.time_of_creation.elapsed().as_micros())
MixElapsed(m, self, env) ==
    [hasher |-> write_u128(m.hasher, elapsed(self, env)),
     reads |-> Append(m.reads, <<"elapsed", elapsed(self, env)>>)]

\* hasher.write_u64(vexSystemPowerupTimeGet())
MixPowerup(m, env) ==
    [hasher |-> write_u64(m.hasher, env.powerup),
     reads |-> Append(m.reads, <<"powerup", env.powerup>>)]

\* the same four steps with the clock sampled before the battery
MixSystem_clockfirst(m, self, env) ==
    MixPowerup(MixCurrent(MixVoltage(MixElapsed(m, self, env), env), env), env)

\* the tail both variants share: voltage, current, elapsed time, power-on counter
MixSystem(m, self, env) ==
    MixPowerup(MixElapsed(MixCurrent(MixVoltage(m, env), env), self, env), env)

Finished(m) == [reads |-> m.reads, fed |-> m.hasher.fed, digest |-> finish(m.hasher)]

(* ----------------------------- SystemRng ------------------------------- *)
SystemRng_hash_value(self, env) ==
    Finished(MixSystem([hasher |-> build_hasher, reads |-> <<>>], self, env))

(* ------------------------------ AdiRng --------------------------------- *)
\* the ports visited by ascending port number instead of as configured
RECURSIVE MixPorts_sorted(_, _, _)
MixPorts_sorted(m, ps, env) ==
    IF ps = <<>> THEN m
    ELSE LET i == CHOOSE j \in 1..Len(ps) : \A l \in 1..Len(ps) : ps[j].number <= ps[l].number
         IN  MixPorts_sorted(MixPort(m, ps[i], env),
                             SubSeq(ps, 1, i - 1) \o SubSeq(ps, i + 1, Len(ps)), env)

\* for value in values { hasher.write_i32(value) }, values being the lazy
\* map over self.ports: each port is read when the loop reaches it
RECURSIVE MixPorts(_, _, _)
MixPorts(m, ps, env) ==
    IF ps = <<>> THEN m ELSE MixPorts(MixPort(m, Head(ps), env), Tail(ps), env)

AdiRng_hash_value(self, env) ==
    Finished(MixSystem(MixPorts([hasher |-> build_hasher, reads |-> <<>>],
                                self.ports, env), self, env))

hash_value(variant, self, env) ==
    IF variant = "SystemRng" THEN SystemRng_hash_value(self, env)
    ELSE AdiRng_hash_value(self, env)

(* --------------------------- the environment --------------------------- *)
\* where the brain has each configured port wired: the built-in ADI ports
\* sit on device index 21, an expander's ports on the expander's own index
Wired(ps) ==
    {<<IF ps[i].expander = {} THEN 21 ELSE CHOOSE x \in ps[i].expander : TRUE,
       ps[i].number>> : i \in 1..Len(ps)}

\* what the hardware can answer during one hash_value call
Envs ==
    [bus : [Wired(ports) -> Readings], voltage : Voltages, current : Currents,
     now : {now}, powerup : {powerup}]

Reverse(s) == [i \in 1..Len(s) |-> s[Len(s) + 1 - i]]

(* ------------------------------ the state ------------------------------ *)
Self == [ports |-> ports, time_of_creation |-> time_of_creation]

\* a byte of dest as the caller left it, not yet written by the generator
Stale == -1

NoEnv == [bus |-> <<>>, voltage |-> 0, current |-> 0, now |-> 0, powerup |-> 0]
NoDraw == [by |-> "none", env |-> NoEnv, elapsed |-> 0, reads |-> <<>>,
           fed |-> <<>>, digest |-> <<0, 0, 0, 0>>, out |-> <<>>]

\* SystemRng::new() / AdiRng::new(ports)
Init ==
    /\ kind \in {"SystemRng", "AdiRng"}
    /\ ports \in (IF kind = "SystemRng" THEN {<<>>} ELSE PortLists)
    /\ now \in ClockAtStart
    /\ time_of_creation = now
    /\ born = [ports |-> ports, time_of_creation |-> time_of_creation]
    /\ powerup \in PowerupsAtStart
    /\ pc = "idle"
    /\ op = "new"
    /\ ret = "none"
    /\ dest = <<>>
    /\ k = 0
    /\ calls = 0
    /\ drawn = <<>>
    /\ envs = <<>>
    /\ log = <<>>
    /\ cur = NoDraw
    /\ prev = NoDraw
    /\ other = [fed |-> <<>>, digest |-> NoDraw.digest]

\* bookkeeping of one hash_value call r made under env on behalf of method by,
\* which made out of the digest
Drew(r, env, by, out) ==
    /\ cur' = [by |-> by, env |-> env, elapsed |-> elapsed(Self, env),
               reads |-> r.reads, fed |-> r.fed, digest |-> r.digest, out |-> out]
    /\ prev' = cur
    /\ \E o \in {hash_value(kind, [Self EXCEPT !.ports = Reverse(ports)], env)} :
         other' = [fed |-> o.fed, digest |-> o.digest]

\* fn next_u32(&mut self) -> u32 { self.hash_value() as u32 }
NextU32 ==
    /\ pc = "idle"
    /\ \E env \in Envs : \E r \in {hash_value(kind, Self, env)} :
         /\ ret' = AsU32(r.digest)
         /\ Drew(r, env, "next_u32", AsU32(r.digest))
         /\ calls' = 1
         /\ drawn' = <<r.digest>>
         /\ envs' = <<env>>
         /\ log' = r.reads
    /\ op' = "next_u32"
    /\ dest' = <<>>
    /\ k' = 0
    /\ UNCHANGED <<kind, ports, time_of_creation, born, now, powerup, pc>>

\* fn next_u64(&mut self) -> u64 { self.hash_value() }
NextU64 ==
    /\ pc = "idle"
    /\ \E env \in Envs : \E r \in {hash_value(kind, Self, env)} :
         /\ ret' = r.digest
         /\ Drew(r, env, "next_u64", r.digest)
         /\ calls' = 1
         /\ drawn' = <<r.digest>>
         /\ envs' = <<env>>
         /\ log' = r.reads
    /\ op' = "next_u64"
    /\ dest' = <<>>
    /\ k' = 0
    /\ UNCHANGED <<kind, ports, time_of_creation, born, now, powerup, pc>>

\* entry of fill_bytes(dest) with a buffer of n bytes: dest.chunks_mut(4)
Enter(name) ==
    /\ pc = "idle"
    /\ \E n \in 0..MaxLen : dest' = [i \in 1..n |-> Stale]
    /\ pc' = "fill"
    /\ op' = name
    /\ ret' = "none"
    /\ k' = 0
    /\ calls' = 0
    /\ drawn' = <<>>
    /\ envs' = <<>>
    /\ log' = <<>>
    /\ cur' = NoDraw
    /\ prev' = NoDraw
    /\ UNCHANGED <<kind, ports, time_of_creation, born, now, powerup, other>>

\* fn fill_bytes(&mut self, dest: &mut [u8])
FillBytes == Enter("fill_bytes")

\* a try_fill_bytes that reports success without touching the buffer
TryFillBytes_untouched ==
    /\ pc = "idle"
    /\ \E n \in 0..MaxLen : dest' = [i \in 1..n |-> Stale] /\ k' = (n + 3) \div 4
    /\ pc' = "fill"
    /\ op' = "try_fill_bytes"
    /\ ret' = "none"
    /\ calls' = 0
    /\ drawn' = <<>>
    /\ envs' = <<>>
    /\ log' = <<>>
    /\ cur' = NoDraw
    /\ prev' = NoDraw
    /\ UNCHANGED <<kind, ports, time_of_creation, born, now, powerup, other>>

\* fn try_fill_bytes(&mut self, dest: &mut [u8]) -> Result<(), Error>,
\* whose body is self.fill_bytes(dest); Ok(())
TryFillBytes == Enter("try_fill_bytes")

\* every chunk cut from its own place in the digest: bytes 4..8 for the
\* second chunk, instead of the leading bytes
CopyChunk_sliced(buf, done, value) ==
    LET len == Min(4, Len(buf) - 4 * done)
    IN  [i \in 1..Len(buf) |->
            IF 4 * done < i /\ i <= 4 * done + len
            THEN to_le_bytes(value)[((i - 1) % 8) + 1] ELSE buf[i]]

\* chunk.copy_from_slice(&value.to_le_bytes()[..len]) on the chunk starting
\* after the first done chunks
CopyChunk(buf, done, value) ==
    LET len == Min(4, Len(buf) - 4 * done)
    IN  [i \in 1..Len(buf) |->
            IF 4 * done < i /\ i <= 4 * done + len
            THEN to_le_bytes(value)[i - 4 * done] ELSE buf[i]]

\* fill_bytes as a whole on buffer buf, the hardware answering es[1], es[2], ..
\* to the successive hash_value calls: the buffer, the reads and the number
\* of calls it ends with
RECURSIVE FillFrom(_, _, _, _, _, _)
FillFrom(variant, self, buf, es, done, reads) ==
    IF 4 * done >= Len(buf) \/ done >= Len(es)
    THEN [dest |-> buf, log |-> reads, calls |-> done]
    ELSE LET r == hash_value(variant, self, es[done + 1])
         IN  FillFrom(variant, self, CopyChunk(buf, done, r.digest), es, done + 1,
                      reads \o r.reads)

fill_bytes(variant, self, buf, es) == FillFrom(variant, self, buf, es, 0, <<>>)

\* one turn of the closure .map(|chunk| ..), driven by .count()
FillChunk ==
    /\ pc = "fill"
    /\ 4 * k < Len(dest)
    /\ \E env \in Envs : \E r \in {hash_value(kind, Self, env)} :
         /\ dest' = CopyChunk(dest, k, r.digest)
         /\ Drew(r, env, op, SubSeq(to_le_bytes(r.digest), 1, Min(4, Len(dest) - 4 * k)))
         /\ drawn' = Append(drawn, r.digest)
         /\ envs' = Append(envs, env)
         /\ log' = log \o r.reads
    /\ k' = k + 1
    /\ calls' = calls + 1
    /\ UNCHANGED <<kind, ports, time_of_creation, born, now, powerup, pc, op, ret>>

\* the chunks are exhausted: fill_bytes returns (), try_fill_bytes Ok(())
FillReturn ==
    /\ pc = "fill"
    /\ 4 * k >= Len(dest)
    /\ pc' = "idle"
    /\ ret' = IF op = "try_fill_bytes" THEN "Ok" ELSE "unit"
    /\ UNCHANGED <<kind, ports, time_of_creation, born, now, powerup, op, dest, k,
                   calls, drawn, envs, log, cur, prev, other>>

\* the monotonic clock advances
Tick ==
    /\ now < (CHOOSE x \in ClockAtStart : TRUE) + MaxTime
    /\ now' = now + 1
    /\ UNCHANGED <<kind, ports, time_of_creation, born, powerup, pc, op, ret, dest,
                   k, calls, drawn, envs, log, cur, prev, other>>

\* the power-on counter advances
PowerupTick ==
    /\ powerup < (CHOOSE x \in PowerupsAtStart : TRUE) + MaxPowerup
    /\ powerup' = powerup + 1
    /\ UNCHANGED <<kind, ports, time_of_creation, born, now, pc, op, ret, dest,
                   k, calls, drawn, envs, log, cur, prev, other>>

Next ==
    \/ NextU32
    \/ NextU64
    \/ FillBytes
    \/ TryFillBytes
    \/ FillChunk
    \/ FillReturn
    \/ Tick
    \/ PowerupTick

Spec == Init /\ [][Next]_vars

(* ======================= properties of the draws ======================= *)
Idle(name) == pc = "idle" /\ op = name

\* the device index and port number the brain knows a port by
SocketOf(port) ==
    <<IF port.expander = {} THEN 21 ELSE CHOOSE x \in port.expander : TRUE, port.number>>

\* the reads one hash_value call owes when the hardware answers e
OwedReads(e) ==
    [i \in 1..Len(born.ports) |->
        <<"adi", SocketOf(born.ports[i])[1], SocketOf(born.ports[i])[2],
          e.bus[SocketOf(born.ports[i])]>>]
    \o << <<"voltage", e.voltage>>, <<"current", e.current>>,
          <<"elapsed", e.now - born.time_of_creation>>, <<"powerup", e.powerup>> >>

\* the words one hash_value call owes the hasher when the hardware answers e
OwedWrites(e) ==
    [i \in 1..Len(born.ports) |-> <<"i32", e.bus[SocketOf(born.ports[i])]>>]
    \o << <<"u32", e.voltage \div 1000>>, <<"u32", e.current \div 1000>>,
          <<"u128", e.now - born.time_of_creation>>, <<"u64", e.powerup>> >>

WidthOf(type) ==
    CASE type = "i32" -> 2 [] type = "u32" -> 2 [] type = "u64" -> 4 [] type = "u128" -> 8

RECURSIVE WordsOf(_)
WordsOf(fed) ==
    IF fed = <<>> THEN <<>>
    ELSE Limbs(Head(fed)[2], WidthOf(Head(fed)[1])) \o WordsOf(Tail(fed))

\* what an accumulator that starts from the keys alone finishes with
FreshDigest(fed) == finish([state |-> AbsorbAll(HasherKeys, WordsOf(fed)), fed |-> fed])

\* byte j (0 the least significant) of a 64-bit word
ByteOf(value, j) ==
    IF j % 2 = 0 THEN value[j \div 2 + 1] % 256 ELSE value[j \div 2 + 1] \div 256

Drawn == cur.by # "none"
Pair == prev.by # "none" /\ cur.by # "none"

\* C1: next_u32 returns the low 32 bits of the digest next_u64 returns for the
\* same sampled inputs, and each of the two makes exactly one hash_value call.
C1_NextU32IsLowHalfOfNextU64 ==
    /\ (Idle("next_u32") \/ Idle("next_u64")) => calls = 1 /\ Len(drawn) = 1
    /\ Idle("next_u64") => ret = drawn[1]
    /\ Idle("next_u32") => ret = <<drawn[1][1], drawn[1][2]>>
    /\ (Pair /\ prev.env = cur.env /\ prev.by = "next_u64" /\ cur.by = "next_u32")
          => cur.out = <<prev.out[1], prev.out[2]>>
    /\ (Pair /\ prev.env = cur.env /\ prev.by = "next_u32" /\ cur.by = "next_u64")
          => prev.out = <<cur.out[1], cur.out[2]>>

C1_Witness ==
    /\ kind = "AdiRng" /\ Len(ports) = 2
    /\ Pair /\ prev.env = cur.env /\ prev.by = "next_u64" /\ cur.by = "next_u32"
    /\ Idle("next_u32") /\ ret = <<prev.out[1], prev.out[2]>>
    /\ <<prev.out[3], prev.out[4]>> # ret

\* C2: fill_bytes on N bytes makes ceil(N/4) hash_value calls, one per 4-byte
\* chunk in increasing order; chunk c ends up holding the leading bytes of the
\* little-endian form of the c-th digest, every byte is overwritten, and for
\* N = 0 nothing is drawn or written.
C2_FillBytesChunks ==
    /\ (pc = "fill" /\ op = "fill_bytes") =>
          /\ calls = k /\ Len(drawn) = k /\ 4 * k < Len(dest) + 4
          /\ \A i \in 1..Len(dest) :
                IF i <= 4 * k THEN dest[i] = ByteOf(drawn[(i - 1) \div 4 + 1], (i - 1) % 4)
                ELSE dest[i] = Stale
    /\ Idle("fill_bytes") =>
          /\ calls = (Len(dest) + 3) \div 4
          /\ Len(drawn) = calls
          /\ \A c \in 1..calls : drawn[c] = FreshDigest(OwedWrites(envs[c]))
          /\ \A i \in 1..Len(dest) :
                dest[i] = ByteOf(drawn[(i - 1) \div 4 + 1], (i - 1) % 4)

C2_Witness ==
    /\ Idle("fill_bytes") /\ Len(dest) = 5 /\ calls = 2
    /\ drawn[1] # drawn[2]
    /\ dest[5] = ByteOf(drawn[2], 0)
    /\ dest[1] # ByteOf(drawn[1], 4)

\* C3: try_fill_bytes always returns Ok(()), and leaves the buffer as
\* fill_bytes leaves it, after the same reads, given the same hardware answers.
C3_TryFillSameAsFill ==
    Idle("try_fill_bytes") =>
          /\ ret = "Ok"
          /\ Len(envs) = calls
          /\ LET f == fill_bytes(kind, [ports |-> born.ports,
                                        time_of_creation |-> born.time_of_creation],
                                 [i \in 1..Len(dest) |-> Stale], envs)
             IN  dest = f.dest /\ log = f.log /\ calls = f.calls
          /\ calls = (Len(dest) + 3) \div 4

C3_Witness ==
    /\ Idle("try_fill_bytes") /\ ret = "Ok" /\ Len(dest) = 5 /\ calls = 2
    /\ envs[1] # envs[2]
    /\ \A i \in 1..5 : dest[i] # Stale

\* C4: a digest is what a fresh accumulator finishes with after being fed,
\* and nothing else: every configured port's reading in configuration order
\* (AdiRng), voltage * 1000 as u32, current * 1000 as u32, the elapsed
\* microseconds since construction as u128, the power-on counter as u64.
C4_DigestOfFieldsInOrder ==
    Drawn => /\ cur.fed = OwedWrites(cur.env)
             /\ cur.digest = FreshDigest(cur.fed)
             /\ kind = "SystemRng" => Len(cur.fed) = 4

C4_Witness ==
    /\ kind = "AdiRng" /\ Len(ports) = 2 /\ Pair
    /\ cur.env.bus[SocketOf(ports[1])] # cur.env.bus[SocketOf(ports[2])]
    /\ cur.elapsed > 0
    /\ cur.fed = << <<"i32", -1>>, <<"i32", 7>>, <<"u32", 12345>>, <<"u32", 2499>>,
                    <<"u128", cur.elapsed>>, <<"u64", cur.env.powerup>> >>

\* C6 as stated: two AdiRng over the same ports in different orders, reading
\* the same values from each port, return different digests.
C6_ReorderedPortsAlwaysDiffer ==
    (kind = "AdiRng" /\ Reverse(ports) # ports /\ Drawn) => other.digest # cur.digest

\* the readings of the configured ports in configuration order, as answered by e
ReadingsOf(e) == [i \in 1..Len(born.ports) |-> e.bus[SocketOf(born.ports[i])]]

\* C6 amended: the two generators feed the hasher different sequences exactly
\* when the readings, taken in the two orders, differ; when they do not, the
\* sequences and the digests are the same.
C6_ReorderedPortsDifferWithReadings ==
    (kind = "AdiRng" /\ Reverse(ports) # ports /\ Drawn) =>
        LET rd == ReadingsOf(cur.env)
        IN  /\ rd # Reverse(rd) => other.fed # cur.fed
            /\ rd = Reverse(rd) => other.fed = cur.fed /\ other.digest = cur.digest

C6_Witness ==
    /\ kind = "AdiRng" /\ Reverse(ports) # ports /\ Drawn
    /\ ReadingsOf(cur.env) = <<-1, 7>>
    /\ other.fed[1] = <<"i32", 7>> /\ cur.fed[1] = <<"i32", -1>>
    /\ other.digest # cur.digest

\* C7: every AdiRng draw reads each configured port at (expander index, port
\* number): the port's own expander number when it has one, 21 when it has
\* none, and always the port's own number.
C7_AdiAddressing ==
    (kind = "AdiRng" /\ Drawn) =>
        /\ Len(cur.reads) = Len(ports) + 4
        /\ \A i \in 1..Len(ports) :
              /\ cur.reads[i][1] = "adi"
              /\ cur.reads[i][2] = (IF ports[i].expander = {} THEN 21
                                    ELSE CHOOSE x \in ports[i].expander : TRUE)
              /\ cur.reads[i][3] = ports[i].number

C7_Witness ==
    /\ kind = "AdiRng" /\ Drawn /\ ports = <<PortF, PortG>>
    /\ cur.reads[1] = <<"adi", 21, 6, 7>>
    /\ cur.reads[2] = <<"adi", 21, 7, -1>>

\* C8: no call changes the generator's fields, and a digest depends on
\* nothing but what its own draw sampled: two draws answered alike by the
\* hardware return the same digest whatever was drawn before them.
C8_NoStateCarried ==
    /\ ports = born.ports
    /\ time_of_creation = born.time_of_creation
    /\ (Pair /\ prev.env = cur.env) =>
          prev.digest = cur.digest /\ prev.fed = cur.fed /\ prev.reads = cur.reads

C8_Witness ==
    /\ Pair /\ prev.env = cur.env /\ prev.by = "fill_bytes" /\ cur.by = "next_u64"
    /\ cur.env.now > born.time_of_creation
    /\ ret = prev.digest

\* C9 as stated: any two successive draws feed the hasher different sequences.
C9_SuccessiveDrawsAlwaysDiffer == Pair => prev.fed # cur.fed

\* C9 amended: every draw feeds the elapsed microseconds, so two successive
\* draws feed different sequences whenever the clock has advanced between
\* them; when nothing that is sampled has changed they feed the same one.
C9_SuccessiveDrawsDifferWithClock ==
    Pair =>
        /\ cur.fed[Len(cur.fed) - 1] = <<"u128", cur.env.now - born.time_of_creation>>
        /\ prev.env.now # cur.env.now => prev.fed # cur.fed
        /\ prev.env = cur.env => prev.fed = cur.fed /\ prev.digest = cur.digest

C9_Witness ==
    /\ pc = "fill" /\ k = 2 /\ prev.by = op /\ cur.by = op
    /\ prev.env.bus = cur.env.bus /\ prev.env.powerup = cur.env.powerup
    /\ prev.env.now + 1 = cur.env.now
    /\ prev.fed # cur.fed

RECURSIVE OwedLog(_)
OwedLog(es) == IF es = <<>> THEN <<>> ELSE OwedReads(Head(es)) \o OwedLog(Tail(es))

\* C10: every hash_value call (one per next_u32, one per next_u64, one per
\* chunk of a fill) makes its own reads: each configured port once in
\* configuration order, then voltage, current, elapsed time and the power-on
\* counter once each; filling N bytes resamples everything ceil(N/4) times.
C10_EveryDrawResamples ==
    /\ Len(envs) = calls
    /\ log = OwedLog(envs)
    /\ Len(log) = calls * (Len(ports) + 4)
    /\ Drawn => cur.reads = OwedReads(cur.env)
    /\ (Idle("next_u32") \/ Idle("next_u64")) => calls = 1
    /\ (Idle("fill_bytes") \/ Idle("try_fill_bytes")) => calls = (Len(dest) + 3) \div 4

C10_Witness ==
    /\ Idle("fill_bytes") /\ kind = "AdiRng" /\ Len(ports) = 2 /\ Len(dest) = 5
    /\ envs[1].bus # envs[2].bus /\ envs[1].now # envs[2].now
    /\ Len(log) = 12
    /\ log[1][4] # log[7][4]

====
